---- MODULE Spec2Model ----
(***************************************************************************)
(* Passport service of TraceApi/api-core: CreatePassport, GetPassport and  *)
(* PublishPassport (internal/core/service/passport_service.go) over the    *)
(* durable tier (Postgres), the fast tier and idempotency store (Redis),   *)
(* the blob store (S3) and the event bus.  Every I/O call of an operation  *)
(* is one step, so that concurrent requests interleave between calls.      *)
(***************************************************************************)
EXTENDS Integers, Sequences, FiniteSets, Bags, TLC

VARIABLES
    db,         \* durable tier: passport id -> row of table passports
    idem,       \* idempotency store: fingerprint -> [val, exp]
    cache,      \* fast tier: passport id -> [val, exp]   (key "passport:<id>")
    blob,       \* blob store: passport id -> [data, puts] (key "passports/<id>.json")
    events,     \* messages published on "events:passport_created"
    tasks,      \* bag of detached goroutines (cache refill / invalidation)
    proc,       \* per request slot: position and locals of the running call
    now,        \* wall clock, in hours since the start
    faults,     \* number of I/O failures injected so far
    pubUpdates, \* history: passport id -> number of durable publish updates
    restrictedFields  \* s.restrictedFields: category -> restricted field names

vars == <<db, idem, cache, blob, events, tasks, proc, now, faults, pubUpdates,
          restrictedFields>>

-----------------------------------------------------------------------------
(* Bounds of the model *)

MaxRecords == 2     \* passports ever saved
MaxTime    == 1     \* entry lifetimes the clock may run through
MaxTasks   == 2     \* detached goroutines pending at once
MaxFaults  == 1     \* I/O failures injected in one behaviour

(* Program constants *)

CacheTTLHours == 1      \* 1*time.Hour
IdemTTLHours  == 24     \* 24*time.Hour

\* request slots: the calls that may be in flight at once
Procs == {"r1", "r2"}

-----------------------------------------------------------------------------
(* domain: categories, statuses, view contexts, errors *)

CategoryBattery    == "BATTERY_INDUSTRIAL"
CategoryTextile    == "TEXTILE_APPAREL"
CategoryElectronic == "CONSUMER_ELECTRONIC"

StatusDraft     == "DRAFT"
StatusPublished == "PUBLISHED"
StatusRevoked   == "REVOKED"

ViewContextRestricted == "restricted"
ViewContextPublic     == "public"

ErrNotFound                 == "resource not found"
ErrConflict                 == "resource already exists"
ErrInvalidInput             == "invalid input"
ErrPassportAlreadyPublished == "passport already published"
ErrInternal                 == "internal error"

\* An error value: the domain sentinel errors.Is finds in its chain ("" when
\* the chain holds none) and the message prefix the service put on it.
Err(sentinel, msg) == [is |-> sentinel, msg |-> msg]

-----------------------------------------------------------------------------
(* Attribute payloads as bytes.                                            *)
(* A JSON object is its top-level keys in the order of the bytes, and the  *)
(* layout of the bytes: "raw" (as the client wrote them, with insignificant*)
(* whitespace), "compact" (encoding/json output) or "jsonb" (Postgres'     *)
(* rendering of a JSONB column).  "malformed" bytes are not JSON.  vals     *)
(* gives, for each top-level key, the JSON text of its value.              *)

NoPayload == [fmt |-> "", keys |-> <<>>, vals |-> <<>>]

KeySet(p) == {p.keys[i] : i \in DOMAIN p.keys}

Restrict(f, S) == [x \in S |-> f[x]]

\* encoding/json sorts map keys bytewise
GoRank == [batteryModel |-> 1, carbonFootprint |-> 2, chemistry |-> 3,
           disassemblyInstructions |-> 4, garmentType |-> 5, ratedCapacity |-> 6,
           supplyChainDetails |-> 7]

\* JSONB orders object keys by length, then bytewise
PgRank == [chemistry |-> 1, garmentType |-> 2, batteryModel |-> 3,
           ratedCapacity |-> 4, carbonFootprint |-> 5, supplyChainDetails |-> 6,
           disassemblyInstructions |-> 7]

SortBy(S, rank) ==
    CHOOSE s \in [1..Cardinality(S) -> S] :
        \A i, j \in 1..Cardinality(S) : i < j => rank[s[i]] < rank[s[j]]

JSONValid(p) == p.fmt # "malformed"

\* json.Marshal of a json.RawMessage: the same document, compacted
MarshalRaw(p) == [p EXCEPT !.fmt = "compact"]

\* JSON value texts: a string, a number float64 holds exactly, and 2^53 + 1,
\* which float64 does not hold: the nearest float64 is 2^53
StringValue == "\"LITHIUM_ION\""
NarrowNumber == "100"
WideNumber == "9007199254740993"
WideNumberAsFloat64 == "9007199254740992"

\* a value decoded into interface{} (a number becomes a float64) and encoded
\* again by json.Marshal, as JSON text
Float64RoundTrip(text) == IF text = WideNumber THEN WideNumberAsFloat64 ELSE text

\* json.Unmarshal of a document into a map[string]interface{}
UnmarshalMap(p) == [k \in KeySet(p) |-> Float64RoundTrip(p.vals[k])]

\* json.Marshal of a map[string]interface{}: keys sorted, compact
MarshalMap(attrs) ==
    [fmt |-> "compact", keys |-> SortBy(DOMAIN attrs, GoRank), vals |-> attrs]

\* what a JSONB column gives back for the document stored in it: numeric
\* keeps every digit of a number
Jsonb(p) == [p EXCEPT !.fmt = "jsonb", !.keys = SortBy(KeySet(p), PgRank)]

\* a document whose values are all the same string
Plain(fmt, keys) ==
    [fmt |-> fmt, keys |-> keys,
     vals |-> [k \in {keys[i] : i \in DOMAIN keys} |-> StringValue]]

\* sha256 + hex: injective on the bytes hashed; <<>> is the empty string
EmptyHash == <<>>
Sha256Hex(bytes) == <<bytes>>

\* the idempotency fingerprint: owner and category bytes are concatenated
\* before the payload bytes are appended
PayloadHash(manufacturerID, category, payload) ==
    <<manufacturerID \o category, payload>>

-----------------------------------------------------------------------------
(* The embedded schemas (schemas/payloads/battery.json, textile.json): the *)
(* required top-level properties and the access tag of each property.     *)

BatterySchema ==
    [required |-> {"batteryModel", "chemistry"},
     access   |-> [batteryModel |-> "public", chemistry |-> "",
                   ratedCapacity |-> "", carbonFootprint |-> "public",
                   disassemblyInstructions |-> "restricted"]]

TextileSchema ==
    [required |-> {"garmentType"},
     access   |-> [garmentType |-> "public", supplyChainDetails |-> "restricted"]]

\* s.schemas, built by NewPassportService
Schemas == (CategoryBattery :> BatterySchema) @@ (CategoryTextile :> TextileSchema)

\* the top-level properties whose access tag is "restricted"
parseRestrictedFields_Untagged(schema) ==
    {k \in DOMAIN schema.access : schema.access[k] # "public"}

parseRestrictedFields(schema) ==
    {k \in DOMAIN schema.access : schema.access[k] = "restricted"}

\* the map NewPassportService builds and stores in s.restrictedFields
RestrictedFields == [c \in DOMAIN Schemas |-> parseRestrictedFields(Schemas[c])]

\* schema.Validate on a parsed document
SchemaValid(schema, p) == schema.required \subseteq KeySet(p)

\* step 2 of CreatePassport: the error it returns, or {} when the payload passes
ValidatePayload_NoSchemaCheck(category, payload) ==
    IF category \notin DOMAIN Schemas
      THEN {Err(ErrInvalidInput, category)}
    ELSE IF ~JSONValid(payload)
      THEN {Err(ErrInvalidInput, "invalid JSON")}
    ELSE {}

ValidatePayload(category, payload) ==
    IF category \notin DOMAIN Schemas
      THEN {Err(ErrInvalidInput, category)}
    ELSE IF ~JSONValid(payload)
      THEN {Err(ErrInvalidInput, "invalid JSON")}
    ELSE IF ~SchemaValid(Schemas[category], payload)
      THEN {Err(ErrInvalidInput, "schema validation failed")}
    ELSE {}

-----------------------------------------------------------------------------
(* domain.Passport and the durable tier *)

\* the zero value of domain.Passport
ZeroPassport ==
    [id |-> 0, category |-> "", status |-> "", owner |-> "", attrs |-> NoPayload,
     createdAt |-> 0, updatedAt |-> 0, publishedAt |-> {}, hash |-> EmptyHash,
     loc |-> ""]

\* step 3 of CreatePassport
NewPassport_Anonymous(id, category, manufacturerID, payload, t) ==
    [ZeroPassport EXCEPT !.id = id, !.category = category, !.status = StatusDraft,
                         !.attrs = payload, !.createdAt = t, !.updatedAt = t]

NewPassport(id, category, manufacturerID, payload, t) ==
    [ZeroPassport EXCEPT !.id = id, !.category = category, !.status = StatusDraft,
                         !.owner = manufacturerID, !.attrs = payload,
                         !.createdAt = t, !.updatedAt = t]

\* PostgresRepository.Save: the row an INSERT of p leaves (attributes is JSONB)
RowSaved(p) == [p EXCEPT !.attrs = Jsonb(@)]

\* PostgresRepository.Update: the row the UPDATE ... WHERE id = $1 leaves
RowUpdated_NoLocation(row, p, t) ==
    [row EXCEPT !.status = p.status, !.hash = p.hash,
                !.publishedAt = p.publishedAt,
                !.updatedAt = t, !.attrs = Jsonb(p.attrs)]

RowUpdated_NoTimestamp(row, p, t) ==
    [row EXCEPT !.status = p.status, !.hash = p.hash, !.loc = p.loc,
                !.updatedAt = t, !.attrs = Jsonb(p.attrs)]

RowUpdated_Recategorised(row, p, t) ==
    [row EXCEPT !.status = p.status, !.hash = p.hash,
                !.publishedAt = p.publishedAt, !.loc = p.loc,
                !.updatedAt = t, !.attrs = Jsonb(p.attrs),
                !.category = "", !.owner = ""]

RowUpdated(row, p, t) ==
    [row EXCEPT !.status = p.status, !.hash = p.hash,
                !.publishedAt = p.publishedAt, !.loc = p.loc,
                !.updatedAt = t, !.attrs = Jsonb(p.attrs)]

\* PostgresRepository.GetByID: the SELECT list has no storage_location
RowRead(row) == [row EXCEPT !.loc = ""]

\* json.Marshal(passport) / json.Unmarshal into domain.Passport
Serialize(p) == [kind |-> "json", rec |-> [p EXCEPT !.attrs = MarshalRaw(@)]]
Deserialize(v) == IF v.kind = "json" THEN {v.rec} ELSE {}

\* BlobStore.UploadJSON's locator, and the key PublishPassport writes
S3URL(bucket, key) == "s3://" \o bucket \o "/" \o key
BlobKey(id) == "passports/" \o ToString(id) \o ".json"

-----------------------------------------------------------------------------
(* Redaction *)

filterAttributes(passport) ==
    IF passport.category \notin DOMAIN restrictedFields
       \/ restrictedFields[passport.category] = {}
      THEN passport
    ELSE IF ~JSONValid(passport.attrs)
      THEN passport
    ELSE LET attrs == UnmarshalMap(passport.attrs)
             kept  == DOMAIN attrs \ restrictedFields[passport.category]
         IN  [passport EXCEPT !.attrs = MarshalMap(Restrict(attrs, kept))]

\* step 4 of GetPassport: whether the result is redacted
NeedsFilter_ContextOnly(viewContext, viewerTenantID, passport) ==
    viewContext # ViewContextRestricted

NeedsFilter(viewContext, viewerTenantID, passport) ==
    LET isOwner == (viewerTenantID = passport.owner)
    IN  viewContext # ViewContextRestricted \/ ~isOwner

-----------------------------------------------------------------------------
(* Requests *)

PayloadFull      ==
    Plain("raw", <<"batteryModel", "disassemblyInstructions", "chemistry">>)
PayloadPublic    == Plain("compact", <<"batteryModel", "chemistry">>)
PayloadPartial   == Plain("raw", <<"batteryModel">>)
PayloadMalformed == Plain("malformed", <<>>)
\* the submissions tried: valid ones, and one for each way of being invalid
Submissions ==
    { <<"m1", CategoryBattery, PayloadFull>>,
      <<"m2", CategoryBattery, PayloadFull>>,
      <<"m1", CategoryBattery, PayloadPublic>>,
      <<"m1", CategoryBattery, PayloadPartial>>,
      <<"m1", CategoryBattery, PayloadMalformed>>,
      <<"m1", CategoryTextile, PayloadFull>>,
      <<"m1", CategoryElectronic, PayloadFull>> }
\* the (view context, viewer identity) pairs a read may carry
Views ==
    { <<"", "">>, <<"", "m1">>, <<ViewContextPublic, "m2">>,
      <<ViewContextRestricted, "m1">>, <<ViewContextRestricted, "m2">>,
      <<ViewContextRestricted, "">> }
UUIDs           == 1..MaxRecords

\* the bearer credentials a read may carry: none, an API key or a JWT, valid
\* or not, naming a tenant or (a JWT without a subject) none
NoToken == [kind |-> "none", valid |-> FALSE, sub |-> ""]
Tokens ==
    {NoToken}
      \cup [kind : {"key"}, valid : BOOLEAN, sub : {"m1", "m2"}]
      \cup [kind : {"jwt"}, valid : BOOLEAN, sub : {"m1", "m2", ""}]

\* the Authorization header of a request: absent, not of the form
\* "Bearer <token>", or carrying a token
NoHeader == [form |-> "none", token |-> NoToken]
AuthHeaders ==
    {NoHeader, [form |-> "malformed", token |-> NoToken]}
      \cup {[form |-> "bearer", token |-> t] : t \in Tokens \ {NoToken}}

\* step 0 of ResolvePassport: the view context and viewer identity it puts
\* in the request context
ResolveContext(token) ==
    IF token.kind \in {"key", "jwt"} /\ token.valid
      THEN <<ViewContextRestricted, token.sub>>
      ELSE <<"", "">>

\* uuid.Parse of the text of an idempotency entry; {} when it does not parse
ParseUUID(str) == {i \in UUIDs : ToString(i) = str}

NoResult == [rec |-> {}, err |-> {}]

\* a request slot with no call running
Idle ==
    [pc |-> "idle", op |-> "", owner |-> "", category |-> "", payload |-> NoPayload,
     id |-> 0, vc |-> "", viewer |-> "", passport |-> {}, lookup |-> {}, reg |-> {},
     seen |-> {}, lapsed |-> {}, got |-> {}, hdr |-> NoHeader, status |-> 0, upl |-> {}, path |-> "", io |-> {}, res |-> NoResult]

Returned(r, rec, err) == [r EXCEPT !.pc = "done", !.res = [rec |-> rec, err |-> err]]

Did(r, call) == [r EXCEPT !.io = @ \cup {call}]

\* an entry is served until its lifetime has run out
Live_Forever(store, key) == key \in DOMAIN store

Live(store, key) == key \in DOMAIN store /\ now < store[key].exp

Fault == faults < MaxFaults /\ faults' = faults + 1
NoFault == faults' = faults

Init ==
    /\ db = <<>>
    /\ idem = <<>>
    /\ cache = <<>>
    /\ blob = <<>>
    /\ events = {}
    /\ tasks = EmptyBag
    /\ proc = [p \in Procs |-> Idle]
    /\ now = 0
    /\ faults = 0
    /\ pubUpdates = [i \in UUIDs |-> 0]
    /\ restrictedFields = RestrictedFields

-----------------------------------------------------------------------------
(* CreatePassport *)

StartCreate(p, manufacturerID, category, payload) ==
    /\ proc[p].pc = "idle"
    /\ proc' = [proc EXCEPT ![p] = [Idle EXCEPT !.pc = "c_lookup", !.op = "create",
                                      !.owner = manufacturerID,
                                      !.category = category, !.payload = payload]]
    /\ UNCHANGED <<db, idem, cache, blob, events, tasks, now, faults, pubUpdates, restrictedFields>>

\* steps 2 and 3: validate, then construct the entity (time.Now() is read here)
ValidateAndConstruct(r) ==
    LET e == ValidatePayload(r.category, r.payload)
    IN  IF e # {}
          THEN Returned(r, {}, e)
          ELSE [r EXCEPT !.pc = "c_save",
                         !.passport = {NewPassport(0, r.category, r.owner, r.payload, now)}]

\* whether the idempotency lookup's answer sends the call to the durable fetch
IdempotencyHit_Ignored(str) == FALSE

IdempotencyHit(str) == ParseUUID(str) # {}

\* step 1, when the entry does not parse or the passport it names cannot be
\* loaded: the nested ifs fall through to validation
StaleEntry_Surfaced(r) == Returned(r, {}, {Err(ErrInternal, "stale idempotency entry")})

StaleEntry(r) == ValidateAndConstruct(r)

\* the text of an entry that has been damaged in the store
Unparsable == "not-a-uuid"

\* step 1: s.cache.GetIdempotency(ctx, payloadHash), uuid.Parse
\* (reg records the entry the store held when the lookup was made, whatever
\* the lookup answered, seen the rows the durable tier held then, and lapsed
\* the entry whose lifetime had run out by then)
CreateLookup(p) ==
    LET r0 == proc[p]
        fp == PayloadHash(r0.owner, r0.category, r0.payload)
        r  == [r0 EXCEPT !.reg = IF Live(idem, fp) THEN {idem[fp].val} ELSE {},
                         !.seen = DOMAIN db,
                         !.lapsed = IF fp \in DOMAIN idem /\ now >= idem[fp].exp
                                      THEN {idem[fp].val} ELSE {}]
    IN  /\ r.pc = "c_lookup"
        /\ \/ /\ Live(idem, fp)
              /\ \E str \in {idem[fp].val, Unparsable} :
                    LET r1 == [Did(r, IF str = Unparsable
                                        THEN "GetIdempotency:corrupt"
                                        ELSE "GetIdempotency:ok")
                                 EXCEPT !.lookup = {str}]
                    IN  /\ IF str = Unparsable THEN Fault ELSE NoFault
                        /\ proc' = [proc EXCEPT ![p] =
                              IF IdempotencyHit(str)
                                THEN [r1 EXCEPT !.pc = "c_fetch",
                                         !.id = CHOOSE i \in ParseUUID(str) : TRUE]
                                ELSE StaleEntry(r1)]
           \/ /\ ~Live(idem, fp)
              /\ NoFault
              /\ proc' = [proc EXCEPT ![p] =
                            ValidateAndConstruct(Did(r, "GetIdempotency:miss"))]
           \/ /\ Fault
              /\ proc' = [proc EXCEPT ![p] =
                            ValidateAndConstruct(Did(r, "GetIdempotency:err"))]
        /\ UNCHANGED <<db, idem, cache, blob, events, tasks, now, pubUpdates, restrictedFields>>

\* step 1, on a hit: s.repo.GetByID(ctx, uid)
CreateFetch(p) ==
    LET r == proc[p]
    IN  /\ r.pc = "c_fetch"
        /\ \/ /\ r.id \in DOMAIN db
              /\ NoFault
              /\ proc' = [proc EXCEPT ![p] =
                            Returned(Did(r, "GetByID:ok"), {RowRead(db[r.id])}, {})]
           \/ /\ r.id \notin DOMAIN db
              /\ NoFault
              /\ proc' = [proc EXCEPT ![p] = StaleEntry(Did(r, "GetByID:notfound"))]
           \/ /\ Fault
              /\ proc' = [proc EXCEPT ![p] = StaleEntry(Did(r, "GetByID:err"))]
        /\ UNCHANGED <<db, idem, cache, blob, events, tasks, now, pubUpdates, restrictedFields>>

\* step 4: s.repo.Save(ctx, passport); uuid.New() is the next unused identity
CreateSave(p) ==
    LET r  == proc[p]
        id == Cardinality(DOMAIN db) + 1
        pp == [(CHOOSE x \in r.passport : TRUE) EXCEPT !.id = id]
    IN  /\ r.pc = "c_save"
        /\ \/ /\ id <= MaxRecords
              /\ NoFault
              /\ db' = (id :> RowSaved(pp)) @@ db
              /\ proc' = [proc EXCEPT ![p] =
                            [Did(r, "Save:ok") EXCEPT !.pc = "c_idem", !.id = id,
                                                      !.passport = {pp}]]
           \/ /\ Fault
              /\ db' = db
              /\ proc' = [proc EXCEPT ![p] =
                            Returned(Did(r, "Save:err"), {},
                                     {Err(ErrInternal, "failed to save")})]
        /\ UNCHANGED <<idem, cache, blob, events, tasks, now, pubUpdates, restrictedFields>>

\* step 5, when SetIdempotency fails: the error is logged and the call goes on
RegistrationFailed_Surfaced(r) ==
    Returned(Did(r, "SetIdempotency:err"), {}, {Err(ErrInternal, "failed to register")})

RegistrationFailed(r) == [Did(r, "SetIdempotency:err") EXCEPT !.pc = "c_event"]

\* step 5: s.cache.SetIdempotency(ctx, payloadHash, passport.ID.String())
CreateSetIdem(p) ==
    LET r  == proc[p]
        fp == PayloadHash(r.owner, r.category, r.payload)
    IN  /\ r.pc = "c_idem"
        /\ \/ /\ NoFault
              /\ idem' = (fp :> [val |-> ToString(r.id), exp |-> now + IdemTTLHours])
                         @@ idem
              /\ proc' = [proc EXCEPT ![p] =
                            [Did(r, "SetIdempotency:ok") EXCEPT !.pc = "c_event"]]
           \/ /\ Fault
              /\ idem' = idem
              /\ proc' = [proc EXCEPT ![p] = RegistrationFailed(r)]
        /\ UNCHANGED <<db, cache, blob, events, tasks, now, pubUpdates, restrictedFields>>

\* step 6, when Publish fails: the error is logged and the passport returned
EventFailed_Surfaced(r) ==
    Returned(Did(r, "Publish:err"), {}, {Err(ErrInternal, "failed to publish")})

EventFailed(r) == Returned(Did(r, "Publish:err"), r.passport, {})

\* step 6: s.eventBus.Publish(ctx, "events:passport_created", event)
CreateEvent(p) ==
    LET r == proc[p]
    IN  /\ r.pc = "c_event"
        /\ \/ /\ NoFault
              /\ events' = events \cup
                             {[tenant_id |-> r.owner, passport_id |-> ToString(r.id)]}
              /\ proc' = [proc EXCEPT ![p] =
                            Returned(Did(r, "Publish:ok"), r.passport, {})]
           \/ /\ Fault
              /\ events' = events
              /\ proc' = [proc EXCEPT ![p] = EventFailed(r)]
        /\ UNCHANGED <<db, idem, cache, blob, tasks, now, pubUpdates, restrictedFields>>

-----------------------------------------------------------------------------
(* PassportHandler.CreatePassport behind HybridAuthMiddleware *)

StatusOK                  == 200
StatusCreated             == 201
StatusBadRequest          == 400
StatusUnauthorized        == 401
StatusConflict            == 409
StatusInternalServerError == 500

\* steps 1 and 2 of the handler: a request without a category parameter or
\* without a manufacturer identity in its context is answered at once;
\* step 4: any other request is handed to the service
Handled(catParam, identity, body) ==
    IF catParam = "" \/ identity = {}
      THEN [Idle EXCEPT !.pc = "done", !.op = "create", !.category = catParam,
                        !.payload = body, !.path = "handler"]
      ELSE [Idle EXCEPT !.pc = "c_lookup", !.op = "create",
                        !.owner = CHOOSE manufacturerID \in identity : TRUE,
                        !.category = catParam, !.payload = body]

HandleCreate(p, catParam, identity, body) ==
    /\ proc[p].pc = "idle"
    /\ proc' = [proc EXCEPT ![p] = Handled(catParam, identity, body)]
    /\ UNCHANGED <<db, idem, cache, blob, events, tasks, now, faults, pubUpdates, restrictedFields>>

\* the status the handler writes for an error of the service
CreateStatusCode_AllInternal(err) == StatusInternalServerError

CreateStatusCode(err) ==
    IF err.is = ErrInvalidInput THEN StatusBadRequest
    ELSE IF err.is = ErrConflict THEN StatusConflict
    ELSE StatusInternalServerError

\* the body the handler writes for an error of the service
CreateBody(err) ==
    IF err.is \in {ErrInvalidInput, ErrConflict} THEN err.msg ELSE "internal server error"

\* the response of the handler for the finished request r
CreateResponse(r) ==
    IF r.path = "handler"
      THEN IF r.category = ""
             THEN [status |-> StatusBadRequest, rec |-> {},
                   body |-> "missing 'category' query parameter"]
             ELSE [status |-> StatusUnauthorized, rec |-> {},
                   body |-> "unauthorized: missing manufacturer identity"]
    ELSE IF r.res.err # {}
      THEN LET err == CHOOSE e \in r.res.err : TRUE
           IN  [status |-> CreateStatusCode(err), rec |-> {}, body |-> CreateBody(err)]
    ELSE [status |-> StatusCreated, rec |-> r.res.rec, body |-> ""]

StatusPaymentRequired == 402

\* the request the middleware answered itself, with the calls it made
Denied(authHeader, status, calls) ==
    [Idle EXCEPT !.pc = "done", !.op = "auth", !.path = "middleware",
                 !.hdr = authHeader, !.status = status, !.io = calls]

\* phase 1, strategy A or B: strings.HasPrefix(tokenString, "traceapi_")
PrefixedKey(token) == token.kind = "key"

\* phase 2: the circuit breaker
Blocked_Never(state) == FALSE

Blocked(state) == state = "BLOCKED"

\* phases 2 and 3 for an identified tenant: the outcomes of the middleware,
\* each with whether an I/O failure produced it
Authorize(authHeader, tenantID, calls, state, catParam, body) ==
    { [fault |-> TRUE,
       slot  |-> Denied(authHeader, StatusInternalServerError,
                        calls \cup {"GetTenantState:err"})],
      [fault |-> FALSE,
       slot  |-> IF Blocked(state)
                   THEN Denied(authHeader, StatusPaymentRequired,
                               calls \cup {"GetTenantState:" \o state})
                   ELSE [Handled(catParam, {tenantID}, body) EXCEPT
                           !.hdr = authHeader,
                           !.io = calls \cup {"GetTenantState:" \o state}]] }

\* HybridAuthMiddleware for one request: state is what GetTenantState
\* answers, catParam and body are what the next handler reads
Outcomes(authHeader, state, catParam, body) ==
    LET token == authHeader.token
    IN  IF authHeader.form # "bearer"
          THEN {[fault |-> FALSE, slot |-> Denied(authHeader, StatusUnauthorized, {})]}
        ELSE IF PrefixedKey(token)
          THEN {[fault |-> TRUE,
                 slot  |-> Denied(authHeader, StatusInternalServerError,
                                  {"ValidateKey:err"})]}
               \cup (IF ~token.valid
                       THEN {[fault |-> FALSE,
                              slot  |-> Denied(authHeader, StatusUnauthorized,
                                               {"ValidateKey:invalid"})]}
                       ELSE Authorize(authHeader, token.sub, {"ValidateKey:ok"},
                                      state, catParam, body))
        ELSE IF ~token.valid \/ token.sub = ""
          THEN {[fault |-> FALSE, slot |-> Denied(authHeader, StatusUnauthorized, {})]}
        ELSE Authorize(authHeader, token.sub, {}, state, catParam, body)

HybridAuthMiddleware(p, authHeader, state, catParam, body) ==
    /\ proc[p].pc = "idle"
    /\ \E o \in Outcomes(authHeader, state, catParam, body) :
         /\ IF o.fault THEN Fault ELSE NoFault
         /\ proc' = [proc EXCEPT ![p] = o.slot]
    /\ UNCHANGED <<db, idem, cache, blob, events, tasks, now, pubUpdates, restrictedFields>>

-----------------------------------------------------------------------------
(* GetPassport *)

StartGet(p, id, viewContext, viewerTenantID) ==
    /\ proc[p].pc = "idle"
    /\ proc' = [proc EXCEPT ![p] = [Idle EXCEPT !.pc = "g_cache", !.op = "get",
                                      !.id = id, !.vc = viewContext,
                                      !.viewer = viewerTenantID]]
    /\ UNCHANGED <<db, idem, cache, blob, events, tasks, now, faults, pubUpdates, restrictedFields>>

\* step 4: redact the retrieved passport for this viewer and return it
FilterAndReturn(r, passport, path) ==
    Returned([r EXCEPT !.got = {passport}, !.path = path],
             IF NeedsFilter(r.vc, r.viewer, passport)
               THEN {filterAttributes(passport)}
               ELSE {passport},
             {})

\* bytes under the cache key that json.Unmarshal rejects
Garbage == [kind |-> "garbage", rec |-> ZeroPassport]

\* step 1: whether the decoded entry is used (jsonErr == nil)
CacheUsable_Never(dec) == FALSE

CacheUsable(dec) == dec # {}

\* step 1, when s.cache.Get fails: the error is dropped, the slow path follows
CacheError_Surfaced(r) ==
    Returned(Did(r, "CacheGet:err"), {}, {Err("", "cache error")})

CacheError(r) == [Did(r, "CacheGet:err") EXCEPT !.pc = "g_db"]

\* step 1: s.cache.Get(ctx, cacheKey), json.Unmarshal; the value read is the
\* entry written by a refill, or (a fault of the tier) bytes that do not decode
GetCache(p) ==
    LET r == proc[p]
    IN  /\ r.pc = "g_cache"
        /\ \/ /\ Live(cache, r.id)
              /\ \E cachedJSON \in {cache[r.id].val, Garbage} :
                   /\ IF cachedJSON = Garbage THEN Fault ELSE NoFault
                   /\ LET dec == Deserialize(cachedJSON)
                      IN  proc' = [proc EXCEPT ![p] =
                             IF CacheUsable(dec)
                               THEN FilterAndReturn(Did(r, "CacheGet:hit"),
                                                    CHOOSE x \in dec : TRUE, "cache")
                               ELSE [Did(r, "CacheGet:corrupt") EXCEPT !.pc = "g_db"]]
           \/ /\ ~Live(cache, r.id)
              /\ NoFault
              /\ proc' = [proc EXCEPT ![p] =
                            [Did(r, "CacheGet:miss") EXCEPT !.pc = "g_db"]]
           \/ /\ Fault
              /\ proc' = [proc EXCEPT ![p] = CacheError(r)]
        /\ UNCHANGED <<db, idem, cache, blob, events, tasks, now, pubUpdates, restrictedFields>>

\* the goroutine of step 3: s.cache.Set(context.Background(), cacheKey, value, 1h)
RefillTask_Redacted(id, passport) ==
    [op |-> "set", id |-> id, val |-> Serialize(filterAttributes(passport))]

RefillTask(id, passport) == [op |-> "set", id |-> id, val |-> Serialize(passport)]

\* step 2, when GetByID finds no row: the repository's error is returned as is
RepoNotFound == Err("", "passport not found")

GetNotFound_Empty(r) == Returned(Did(r, "GetByID:notfound"), {ZeroPassport}, {})

GetNotFound(r) == Returned(Did(r, "GetByID:notfound"), {}, {RepoNotFound})

\* steps 2 and 3: s.repo.GetByID(ctx, id), then start the detached refill
GetDB(p) ==
    LET r == proc[p]
    IN  /\ r.pc = "g_db"
        /\ \/ /\ r.id \in DOMAIN db
              /\ NoFault
              /\ BagCardinality(tasks) < MaxTasks
              /\ LET passport == RowRead(db[r.id])
                 IN  /\ tasks' = tasks (+) SetToBag({RefillTask(r.id, passport)})
                     /\ proc' = [proc EXCEPT ![p] =
                           FilterAndReturn(Did(Did(r, "GetByID:ok"), "CacheSet:go"),
                                           passport, "db")]
           \/ /\ r.id \notin DOMAIN db
              /\ NoFault
              /\ tasks' = tasks
              /\ proc' = [proc EXCEPT ![p] = GetNotFound(r)]
           \/ /\ Fault
              /\ tasks' = tasks
              /\ proc' = [proc EXCEPT ![p] =
                            Returned(Did(r, "GetByID:err"), {},
                                     {Err("", "database error")})]
        /\ UNCHANGED <<db, idem, cache, blob, events, now, pubUpdates, restrictedFields>>

-----------------------------------------------------------------------------
(* PublishPassport *)

StartPublish(p, id) ==
    /\ proc[p].pc = "idle"
    /\ proc' = [proc EXCEPT ![p] = [Idle EXCEPT !.pc = "p_fetch", !.op = "publish",
                                      !.id = id]]
    /\ UNCHANGED <<db, idem, cache, blob, events, tasks, now, faults, pubUpdates, restrictedFields>>

\* PassportHandler.PublishPassport behind the middleware: the request context
\* carries the caller's identity, the handler passes only the id to the service
\* (viewer records the identity the context carried)
HandlePublish(p, manufacturerID, id) ==
    /\ proc[p].pc = "idle"
    /\ proc' = [proc EXCEPT ![p] = [Idle EXCEPT !.pc = "p_fetch", !.op = "publish",
                                      !.id = id, !.viewer = manufacturerID]]
    /\ UNCHANGED <<db, idem, cache, blob, events, tasks, now, faults, pubUpdates, restrictedFields>>

\* the errors PublishPassport returns: none but the first carries a domain
\* sentinel, the others wrap the cause under a message prefix
AlreadyPublished == Err(ErrPassportAlreadyPublished, ErrPassportAlreadyPublished)
FetchFailed(cause) == Err("", "failed to fetch passport: " \o cause)
UploadFailed == Err("", "failed to upload to blob storage")
UpdateFailed == Err("", "failed to save published passport")

\* PassportHandler.PublishPassport: the HTTP status written for a service error

PublishStatusCode(err) ==
    IF err.is = ErrPassportAlreadyPublished
      THEN StatusConflict
    ELSE IF err.is = ErrInvalidInput \/ err.msg = "schema validation failed"
      THEN StatusBadRequest
    ELSE StatusInternalServerError

\* the body PassportHandler.PublishPassport writes for a service error:
\* http.Error(w, err.Error(), ...), the text of the whole error chain
PublishBody(err) == err.msg

\* the body PassportHandler.CreatePassport writes with a 500
GenericBody == "internal server error"

\* ResolverHandler.ResolvePassport: the status and body written for any
\* error of GetPassport
StatusNotFound == 404
ResolveStatusCode(err) == StatusNotFound
ResolveBody(err) == "Passport Not Found"

\* the response of PassportHandler.PublishPassport for the finished request r
PublishResponse(r) ==
    IF r.res.err # {}
      THEN LET err == CHOOSE e \in r.res.err : TRUE
           IN  [status |-> PublishStatusCode(err), rec |-> {}, body |-> PublishBody(err)]
      ELSE [status |-> StatusOK, rec |-> r.res.rec, body |-> ""]

\* what a caller can tell an error by without reading its text: the domain
\* sentinel errors.Is finds, and the status the handler answers with
ErrClass(err) == [is |-> err.is, status |-> PublishStatusCode(err)]

\* step 2: the status check
IsPublished_Never(passport) == FALSE

IsPublished(passport) == passport.status = StatusPublished

\* step 1: the passport PublishPassport works on is the durable row
PublishRead_CacheFirst(id) ==
    IF Live(cache, id) /\ Deserialize(cache[id].val) # {}
      THEN CHOOSE x \in Deserialize(cache[id].val) : TRUE
      ELSE RowRead(db[id])

PublishRead(id) == RowRead(db[id])

\* steps 1 and 2: s.repo.GetByID(ctx, id), reject a published passport
PubFetch(p) ==
    LET r == proc[p]
    IN  /\ r.pc = "p_fetch"
        /\ \/ /\ r.id \in DOMAIN db
              /\ NoFault
              /\ LET passport == PublishRead(r.id)
                     r1 == [Did(r, "GetByID:ok") EXCEPT !.got = {passport}]
                 IN  proc' = [proc EXCEPT ![p] =
                        IF IsPublished(passport)
                          THEN Returned(r1, {}, {AlreadyPublished})
                          ELSE [r1 EXCEPT !.pc = "p_upload", !.passport = {passport}]]
           \/ /\ r.id \notin DOMAIN db
              /\ NoFault
              /\ proc' = [proc EXCEPT ![p] =
                            Returned(Did(r, "GetByID:notfound"), {},
                                     {FetchFailed("passport not found")})]
           \/ /\ Fault
              /\ proc' = [proc EXCEPT ![p] =
                            Returned(Did(r, "GetByID:err"), {},
                                     {FetchFailed("database error")})]
        /\ UNCHANGED <<db, idem, cache, blob, events, tasks, now, pubUpdates, restrictedFields>>

\* step 4: the hash PublishPassport records for the bytes it uploads
PublishHash_OfNothing(passport, payloadBytes) == Sha256Hex(NoPayload)

PublishHash(passport, payloadBytes) == Sha256Hex(payloadBytes)

\* step 5, when UploadJSON fails: the call ends here
UploadError_Ignored(r) == [Did(r, "UploadJSON:err") EXCEPT !.pc = "p_update"]

UploadError(r) == Returned(Did(r, "UploadJSON:err"), {}, {UploadFailed})

\* steps 3 to 6: marshal, hash, s.blobStore.UploadJSON, update the struct
PubUpload(p) ==
    LET r            == proc[p]
        passport     == CHOOSE x \in r.passport : TRUE
        payloadBytes == MarshalRaw(passport.attrs)
        key          == BlobKey(passport.id)
        s3URL        == S3URL("passports", key)
        puts         == IF r.id \in DOMAIN blob THEN blob[r.id].puts ELSE 0
    IN  /\ r.pc = "p_upload"
        /\ \/ /\ NoFault
              /\ blob' = (r.id :> [data |-> payloadBytes, puts |-> puts + 1]) @@ blob
              /\ proc' = [proc EXCEPT ![p] =
                   [Did(r, "UploadJSON:ok") EXCEPT
                      !.pc = "p_update",
                      !.upl = {[data |-> payloadBytes, url |-> s3URL]},
                      !.passport = {[passport EXCEPT
                                       !.status = StatusPublished,
                                       !.hash = PublishHash(passport, payloadBytes),
                                       !.loc = s3URL,
                                       !.publishedAt = {now}]}]]
           \/ /\ Fault
              /\ blob' = blob
              /\ proc' = [proc EXCEPT ![p] = UploadError(r)]
        /\ UNCHANGED <<db, idem, cache, events, tasks, now, pubUpdates, restrictedFields>>

\* the goroutine of step 8: s.cache.Delete(context.Background(), cacheKey)
InvalidateTask(id) == [op |-> "del", id |-> id, val |-> Serialize(ZeroPassport)]

\* steps 7 and 8: s.repo.Update(ctx, passport), then start the detached invalidation
PubUpdate(p) ==
    LET r        == proc[p]
        passport == CHOOSE x \in r.passport : TRUE
    IN  /\ r.pc = "p_update"
        /\ \/ /\ NoFault
              /\ BagCardinality(tasks) < MaxTasks
              /\ db' = [db EXCEPT ![r.id] = RowUpdated(@, passport, now)]
              /\ pubUpdates' = [pubUpdates EXCEPT ![r.id] = @ + 1]
              /\ tasks' = tasks (+) SetToBag({InvalidateTask(r.id)})
              /\ proc' = [proc EXCEPT ![p] =
                            Returned(Did(Did(r, "Update:ok"), "CacheDelete:go"),
                                     {passport}, {})]
           \/ /\ Fault
              /\ UNCHANGED <<db, pubUpdates, tasks>>
              /\ proc' = [proc EXCEPT ![p] =
                            Returned(Did(r, "Update:err"), {}, {UpdateFailed})]
        /\ UNCHANGED <<idem, cache, blob, events, now, restrictedFields>>

-----------------------------------------------------------------------------
(* The environment: responses leave, goroutines run, time passes *)

\* the call's result has been handed to its caller
Return(p) ==
    /\ proc[p].pc = "done"
    /\ proc' = [proc EXCEPT ![p] = Idle]
    /\ UNCHANGED <<db, idem, cache, blob, events, tasks, now, faults, pubUpdates, restrictedFields>>

\* what the fast tier holds after the call of task t succeeds
Applied(t) ==
    IF t.op = "set"
      THEN (t.id :> [val |-> t.val, exp |-> now + CacheTTLHours]) @@ cache
      ELSE Restrict(cache, DOMAIN cache \ {t.id})

\* RedisStore.Set / RedisStore.Delete, run by a detached goroutine on
\* context.Background(): no state of the request enters it
RunTask_Attached(t) ==
    /\ BagIn(t, tasks)
    /\ tasks' = tasks (-) SetToBag({t})
    /\ IF \E p \in Procs : proc[p].pc # "idle"
         THEN \/ NoFault /\ cache' = Applied(t)
              \/ Fault /\ cache' = cache
         ELSE NoFault /\ cache' = cache
    /\ UNCHANGED <<db, idem, blob, events, proc, now, pubUpdates, restrictedFields>>

RunTask(t) ==
    /\ BagIn(t, tasks)
    /\ tasks' = tasks (-) SetToBag({t})
    /\ \/ /\ NoFault
          /\ cache' = Applied(t)
       \/ /\ Fault
          /\ cache' = cache
    /\ UNCHANGED <<db, idem, blob, events, proc, now, pubUpdates, restrictedFields>>

\* d hours pass; Redis drops the fast-tier entries whose lifetime has run
\* out, and an idempotency entry whose lifetime has run out stays in memory
\* until it is looked up, where Live finds none
Tick(d) ==
    /\ now + d <= MaxTime * d
    /\ now' = now + d
    /\ cache' = Restrict(cache, {k \in DOMAIN cache : now' < cache[k].exp})
    /\ UNCHANGED <<db, idem, blob, events, tasks, proc, faults, pubUpdates, restrictedFields>>

\* the clock passes the last of the MaxTime lifetimes by one more
TickBeyond(d) ==
    /\ now = MaxTime * d
    /\ now' = now + d
    /\ cache' = Restrict(cache, {k \in DOMAIN cache : now' < cache[k].exp})
    /\ UNCHANGED <<db, idem, blob, events, tasks, proc, faults, pubUpdates, restrictedFields>>

\* a draft passport is recalled: DRAFT -> REVOKED
Revoke(id) ==
    /\ id \in DOMAIN db
    /\ db[id].status = StatusDraft
    /\ db' = [db EXCEPT ![id].status = StatusRevoked, ![id].updatedAt = now]
    /\ UNCHANGED <<idem, cache, blob, events, tasks, proc, now, faults, pubUpdates, restrictedFields>>

-----------------------------------------------------------------------------

(* The intake specification: CreatePassport calls, up to two in flight,    *)
(* over the submissions above.                                             *)

NextCreate ==
    \/ \E p \in Procs, s \in Submissions : StartCreate(p, s[1], s[2], s[3])
    \/ \E p \in Procs : CreateLookup(p)
    \/ \E p \in Procs : CreateFetch(p)
    \/ \E p \in Procs : CreateSave(p)
    \/ \E p \in Procs : CreateSetIdem(p)
    \/ \E p \in Procs : CreateEvent(p)
    \/ \E p \in Procs : Return(p)
    \/ Tick(IdemTTLHours)

SpecCreate == Init /\ [][NextCreate]_vars

(* The lifecycle specification: one passport is created, then read,        *)
(* published and recalled by one caller at a time, while the detached      *)
(* goroutines run and time passes.                                         *)

\* the identity of the one passport of the lifecycle specifications
LifecycleIDs == {CHOOSE i \in UUIDs : \A j \in UUIDs : i <= j}

\* the one submission of the lifecycle specifications
CreateFirst(p) ==
    /\ DOMAIN db = {}
    /\ \A q \in Procs : proc[q].op # "create"
    /\ StartCreate(p, "m1", CategoryBattery, PayloadFull)

\* one call in flight at a time
Sequential == {"r1"}

Next ==
    \/ \E p \in Sequential : CreateFirst(p)
    \/ \E p \in Sequential : CreateLookup(p)
    \/ \E p \in Sequential : CreateSave(p)
    \/ \E p \in Sequential : CreateSetIdem(p)
    \/ \E p \in Sequential : CreateEvent(p)
    \/ \E p \in Sequential, id \in LifecycleIDs, v \in Views :
          StartGet(p, id, v[1], v[2])
    \/ \E p \in Sequential : GetCache(p)
    \/ \E p \in Sequential : GetDB(p)
    \/ \E p \in Sequential, id \in LifecycleIDs : StartPublish(p, id)
    \/ \E p \in Sequential : PubFetch(p)
    \/ \E p \in Sequential : PubUpload(p)
    \/ \E p \in Sequential : PubUpdate(p)
    \/ \E p \in Sequential : Return(p)
    \/ \E t \in DOMAIN tasks : RunTask(t)
    \/ Tick(CacheTTLHours)
    \/ \E id \in LifecycleIDs : Revoke(id)

Spec == Init /\ [][Next]_vars

(* The publish race: the same lifecycle with two publish calls in flight.  *)

NextRace ==
    \/ \E p \in Procs : CreateFirst(p)
    \/ \E p \in Procs : CreateLookup(p)
    \/ \E p \in Procs : CreateSave(p)
    \/ \E p \in Procs : CreateSetIdem(p)
    \/ \E p \in Procs : CreateEvent(p)
    \/ \E p \in Procs, id \in LifecycleIDs : StartPublish(p, id)
    \/ \E p \in Procs : PubFetch(p)
    \/ \E p \in Procs : PubUpload(p)
    \/ \E p \in Procs : PubUpdate(p)
    \/ \E p \in Procs : Return(p)
    \/ \E t \in DOMAIN tasks : RunTask(t)
    \/ Tick(CacheTTLHours)
    \/ \E id \in LifecycleIDs : Revoke(id)

SpecRace == Init /\ [][NextRace]_vars

(* Reads against a publish: one slot creates and publishes the passport,   *)
(* the other reads it anonymously, and the clock runs past one lifetime.   *)

Writer == {"r1"}
Reader == {"r2"}

NextStale ==
    \/ \E p \in Writer : CreateFirst(p)
    \/ \E p \in Writer : CreateLookup(p)
    \/ \E p \in Writer : CreateSave(p)
    \/ \E p \in Writer : CreateSetIdem(p)
    \/ \E p \in Writer : CreateEvent(p)
    \/ \E p \in Reader, id \in LifecycleIDs : StartGet(p, id, "", "")
    \/ \E p \in Reader : GetCache(p)
    \/ \E p \in Reader : GetDB(p)
    \/ \E p \in Writer, id \in LifecycleIDs : StartPublish(p, id)
    \/ \E p \in Writer : PubFetch(p)
    \/ \E p \in Writer : PubUpload(p)
    \/ \E p \in Writer : PubUpdate(p)
    \/ \E p \in Procs : Return(p)
    \/ \E t \in DOMAIN tasks : RunTask(t)
    \/ Tick(CacheTTLHours)
    \/ TickBeyond(CacheTTLHours)

SpecStale == Init /\ [][NextStale]_vars

(* Detached goroutines under a fair scheduler: the lifecycle with one call *)
(* at a time, a read starting only when no refill is pending, and every    *)
(* started goroutine eventually scheduled.                                 *)

Pending(op) == \E t \in DOMAIN tasks : t.op = op

RunKind(op) == \E t \in DOMAIN tasks : t.op = op /\ RunTask(t)

SpacedGet(p, id, viewContext, viewerTenantID) ==
    /\ ~Pending("set")
    /\ StartGet(p, id, viewContext, viewerTenantID)

NextDetach ==
    \/ \E p \in Sequential : CreateFirst(p)
    \/ \E p \in Sequential : CreateLookup(p)
    \/ \E p \in Sequential : CreateSave(p)
    \/ \E p \in Sequential : CreateSetIdem(p)
    \/ \E p \in Sequential : CreateEvent(p)
    \/ \E p \in Sequential, id \in LifecycleIDs, v \in Views :
          SpacedGet(p, id, v[1], v[2])
    \/ \E p \in Sequential : GetCache(p)
    \/ \E p \in Sequential : GetDB(p)
    \/ \E p \in Sequential, id \in LifecycleIDs : StartPublish(p, id)
    \/ \E p \in Sequential : PubFetch(p)
    \/ \E p \in Sequential : PubUpload(p)
    \/ \E p \in Sequential : PubUpdate(p)
    \/ \E p \in Sequential : Return(p)
    \/ \E t \in DOMAIN tasks : RunTask(t)
    \/ Tick(CacheTTLHours)

SpecDetach ==
    /\ Init /\ [][NextDetach]_vars
    /\ WF_vars(RunKind("set"))
    /\ WF_vars(RunKind("del"))

(* The handlers: create and publish requests as PassportHandler receives   *)
(* them, one at a time.                                                    *)

CatParams  == {"", CategoryBattery, CategoryElectronic}
Identities == {{}, {"m1"}}
Bodies     == {PayloadFull, PayloadPublic, PayloadPartial, PayloadMalformed}

NextHandler ==
    \/ \E p \in Sequential, catParam \in CatParams, identity \in Identities,
          body \in Bodies : HandleCreate(p, catParam, identity, body)
    \/ \E p \in Sequential : CreateLookup(p)
    \/ \E p \in Sequential : CreateFetch(p)
    \/ \E p \in Sequential : CreateSave(p)
    \/ \E p \in Sequential : CreateSetIdem(p)
    \/ \E p \in Sequential : CreateEvent(p)
    \/ \E p \in Sequential, id \in UUIDs : StartPublish(p, id)
    \/ \E p \in Sequential : PubFetch(p)
    \/ \E p \in Sequential : PubUpload(p)
    \/ \E p \in Sequential : PubUpdate(p)
    \/ \E p \in Sequential : Return(p)
    \/ \E t \in DOMAIN tasks : RunTask(t)

SpecHandler == Init /\ [][NextHandler]_vars

(* The authenticated route: create requests pass HybridAuthMiddleware      *)
(* before they reach the handler.                                          *)

TenantStates == {"ACTIVE", "BLOCKED"}

NextAuth ==
    \/ \E p \in Sequential, authHeader \in AuthHeaders, state \in TenantStates,
          body \in {PayloadFull, PayloadPartial} :
            HybridAuthMiddleware(p, authHeader, state, CategoryBattery, body)
    \/ \E p \in Sequential : CreateLookup(p)
    \/ \E p \in Sequential : CreateFetch(p)
    \/ \E p \in Sequential : CreateSave(p)
    \/ \E p \in Sequential : CreateSetIdem(p)
    \/ \E p \in Sequential : CreateEvent(p)
    \/ \E p \in Sequential : Return(p)

SpecAuth == Init /\ [][NextAuth]_vars

-----------------------------------------------------------------------------
(* The publish route: one passport of tenant m1, publish requests by the    *)
(* authenticated tenants m1 and m2, one at a time.                          *)

NextPublishRoute ==
    \/ \E p \in Sequential : CreateFirst(p)
    \/ \E p \in Sequential : CreateLookup(p)
    \/ \E p \in Sequential : CreateSave(p)
    \/ \E p \in Sequential : CreateSetIdem(p)
    \/ \E p \in Sequential : CreateEvent(p)
    \/ \E p \in Sequential, manufacturerID \in {"m1", "m2"}, id \in LifecycleIDs :
          HandlePublish(p, manufacturerID, id)
    \/ \E p \in Sequential : PubFetch(p)
    \/ \E p \in Sequential : PubUpload(p)
    \/ \E p \in Sequential : PubUpdate(p)
    \/ \E p \in Sequential : Return(p)
    \/ \E t \in DOMAIN tasks : RunTask(t)

SpecPublishRoute == Init /\ [][NextPublishRoute]_vars

-----------------------------------------------------------------------------
(* Reads of a passport without an owner: CreatePassport is called with an   *)
(* empty manufacturerID, then the passport is read under every view.        *)

NextOwnerless ==
    \/ \E p \in Sequential : StartCreate(p, "", CategoryBattery, PayloadFull)
    \/ \E p \in Sequential : CreateLookup(p)
    \/ \E p \in Sequential : CreateFetch(p)
    \/ \E p \in Sequential : CreateSave(p)
    \/ \E p \in Sequential : CreateSetIdem(p)
    \/ \E p \in Sequential : CreateEvent(p)
    \/ \E p \in Sequential, id \in LifecycleIDs, v \in Views :
          StartGet(p, id, v[1], v[2])
    \/ \E p \in Sequential : GetCache(p)
    \/ \E p \in Sequential : GetDB(p)
    \/ \E p \in Sequential : Return(p)
    \/ \E t \in DOMAIN tasks : RunTask(t)

SpecOwnerless == Init /\ [][NextOwnerless]_vars

-----------------------------------------------------------------------------
(* Fingerprints: CreatePassport calls, one at a time, by two tenants whose  *)
(* owner and category bytes concatenate to the same bytes.                  *)

Colliding ==
    { <<"m1", CategoryBattery, PayloadFull>>,
      <<"m", "1" \o CategoryBattery, PayloadFull>>,
      <<"m1", CategoryBattery, PayloadPublic>> }

NextCollide ==
    \/ \E p \in Sequential, s \in Colliding : StartCreate(p, s[1], s[2], s[3])
    \/ \E p \in Sequential : CreateLookup(p)
    \/ \E p \in Sequential : CreateFetch(p)
    \/ \E p \in Sequential : CreateSave(p)
    \/ \E p \in Sequential : CreateSetIdem(p)
    \/ \E p \in Sequential : CreateEvent(p)
    \/ \E p \in Sequential : Return(p)

SpecCollide == Init /\ [][NextCollide]_vars

-----------------------------------------------------------------------------
(* Redaction alone: filterAttributes applied to the passports GetPassport  *)
(* can retrieve, for every category and every document over FilterKeys.    *)

FilterCategories == {CategoryBattery, CategoryTextile, CategoryElectronic}

FilterKeys == {"batteryModel", "disassemblyInstructions", "ratedCapacity",
               "carbonFootprint", "supplyChainDetails"}

\* object values: one of them has a key named like a restricted field
ObjectValue == "{\"totalCarbonFootprint\":45.2}"
NestedValue == "{\"disassemblyInstructions\":\"step 1\"}"

ValuesOf(k) ==
    IF k = "ratedCapacity" THEN {NarrowNumber, WideNumber}
    ELSE IF k = "carbonFootprint" THEN {ObjectValue, NestedValue}
    ELSE {StringValue}

Documents ==
    UNION {{[fmt |-> "raw", keys |-> SortBy(ks, GoRank), vals |-> v] :
              v \in {f \in [ks -> UNION {ValuesOf(k) : k \in FilterKeys}] :
                       \A k \in ks : f[k] \in ValuesOf(k)}} :
           ks \in SUBSET FilterKeys}

\* the passport the durable tier returns for a stored document
Retrieved(category, document) ==
    RowRead(RowSaved(NewPassport(1, category, "m1", document, 0)))

\* s.filterAttributes(passport), as GetPassport calls it for a non-owner
Redact(p, category, document) ==
    /\ proc[p].pc = "idle"
    /\ LET passport == Retrieved(category, document)
       IN  proc' = [proc EXCEPT ![p] =
               Returned([Idle EXCEPT !.op = "filter", !.category = category,
                                     !.got = {passport}],
                        {filterAttributes(passport)}, {})]
    /\ UNCHANGED <<db, idem, cache, blob, events, tasks, now, faults, pubUpdates, restrictedFields>>

NextFilter ==
    \/ \E p \in Sequential, category \in FilterCategories, document \in Documents :
          Redact(p, category, document)
    \/ \E p \in Sequential : Return(p)

SpecFilter == Init /\ [][NextFilter]_vars

-----------------------------------------------------------------------------
(* Properties *)

CreateDone(r)  == r.pc = "done" /\ r.op = "create"
GetDone(r)     == r.pc = "done" /\ r.op = "get"
PublishDone(r) == r.pc = "done" /\ r.op = "publish"

\* the store held a live registration when r looked its fingerprint up
Registered(r) == r.reg # {}

\* the call r answered with the passport the registration names, and wrote nothing
Replayed(r) ==
    /\ r.res.err = {}
    /\ \E x \in r.res.rec : ToString(x.id) \in r.reg
    /\ r.io \cap {"Save:ok", "Save:err", "SetIdempotency:ok", "SetIdempotency:err"} = {}

\* C1 as stated: a CreatePassport call made while the triple's registration
\* is live returns the registered passport, saves nothing and registers nothing.
C1_ReplayAlways ==
    \A p \in Procs :
        (CreateDone(proc[p]) /\ Registered(proc[p])) => Replayed(proc[p])

\* C1, amended: a CreatePassport call made while the triple's registration is
\* live, whose idempotency lookup and durable fetch both succeed, returns the
\* passport the first call returned, saves nothing and registers nothing.
C1_ReplayWhenLookupSucceeds ==
    \A p \in Procs :
        LET r == proc[p]
        IN  (/\ CreateDone(r)
             /\ Registered(r)
             /\ r.io \cap {"GetIdempotency:err", "GetIdempotency:corrupt",
                          "GetByID:err", "GetByID:notfound"} = {})
            => /\ Replayed(r)
               /\ \A q \in Procs \ {p} :
                    (/\ CreateDone(proc[q])
                     /\ "SetIdempotency:ok" \in proc[q].io
                     /\ ToString(proc[q].id) \in r.reg)
                    => \A x \in r.res.rec, y \in proc[q].res.rec : x.id = y.id

\* both calls of a pair have answered: the first registered, the second replayed
C1_Witness ==
    \E p, q \in Procs :
        /\ p # q
        /\ CreateDone(proc[p]) /\ CreateDone(proc[q])
        /\ "SetIdempotency:ok" \in proc[q].io
        /\ proc[p].reg = {ToString(proc[q].id)}
        /\ "GetByID:ok" \in proc[p].io
        /\ \E x \in proc[p].res.rec : x.id = proc[q].id

\* the three ways a submission is invalid
Unsupported(r) == r.category \notin DOMAIN Schemas
Malformed(r)   == ~JSONValid(r.payload)
Violating(r)   ==
    r.category \in DOMAIN Schemas /\ ~SchemaValid(Schemas[r.category], r.payload)

\* C2: a CreatePassport call whose payload is malformed, violates the schema
\* of its category or names an unsupported category returns InvalidInput and
\* no passport, and makes no Save, no registration and no event publication.
C2_InvalidInputWritesNothing ==
    \A p \in Procs :
        LET r == proc[p]
        IN  (CreateDone(r) /\ (Unsupported(r) \/ Malformed(r) \/ Violating(r)))
            => /\ r.res.rec = {}
               /\ r.res.err # {}
               /\ \A e \in r.res.err : e.is = ErrInvalidInput
               /\ "GetIdempotency:ok" \notin r.io
               /\ r.io \cap {"Save:ok", "Save:err", "SetIdempotency:ok",
                             "SetIdempotency:err", "Publish:ok", "Publish:err"} = {}

\* a schema-violating payload has been refused after an idempotency miss
C2_Witness ==
    \E p \in Procs :
        /\ CreateDone(proc[p])
        /\ Violating(proc[p]) /\ ~Malformed(proc[p])
        /\ "GetIdempotency:miss" \in proc[p].io
        /\ \E e \in proc[p].res.err : e.is = ErrInvalidInput

\* the viewer of the call r is not the owner of the passport g
NonOwner(r, g) == r.vc # ViewContextRestricted \/ r.viewer # g.owner

C4_PublishCommits ==
    \A p \in Procs :
        LET r == proc[p]
        IN  (/\ PublishDone(r)
             /\ "Update:ok" \in r.io
             /\ \A g \in r.got : g.status = StatusDraft)
            => /\ r.res.err = {}
               /\ \E x \in r.res.rec : x.id = r.id /\ x.status = StatusPublished
               /\ db[r.id].status = StatusPublished
               /\ db[r.id].hash = Sha256Hex(blob[r.id].data)
               /\ \E u \in r.upl : /\ u.data = blob[r.id].data
                                   /\ db[r.id].loc = u.url
               /\ db[r.id].publishedAt # {}

\* a Draft passport has been published
C4_Witness ==
    \E p \in Procs :
        /\ PublishDone(proc[p])
        /\ "Update:ok" \in proc[p].io
        /\ \E g \in proc[p].got : g.status = StatusDraft
        /\ db[proc[p].id].status = StatusPublished
        /\ db[proc[p].id].loc # ""

\* C5: PublishPassport on a passport that is already Published returns
\* AlreadyPublished after the fetch alone: no upload, no update, no cache
\* invalidation, and the row keeps its hash and publish time.
C5_RepublishRefused ==
    \A p \in Procs :
        LET r == proc[p]
        IN  (PublishDone(r) /\ \E g \in r.got : g.status = StatusPublished)
            => /\ r.res = [rec |-> {}, err |-> {AlreadyPublished}]
               /\ r.io = {"GetByID:ok"}
               /\ r.upl = {}
               /\ r.got = {RowRead(db[r.id])}

\* a second publish of a published passport has been refused
C5_Witness ==
    \E p \in Procs :
        /\ PublishDone(proc[p])
        /\ proc[p].res.err = {AlreadyPublished}
        /\ pubUpdates[proc[p].id] = 1
        /\ db[proc[p].id].hash # EmptyHash

\* C6: over every interleaving of PublishPassport calls on a passport, at
\* most one of them performs the durable update.
C6_UpdatedOnce == \A id \in UUIDs : pubUpdates[id] <= 1

\* C7: every status change of a row is Draft to Published or Draft to Revoked.
C7_StatusMonotonic ==
    [][\A id \in DOMAIN db :
         db'[id].status # db[id].status
         => /\ db[id].status = StatusDraft
            /\ db'[id].status \in {StatusPublished, StatusRevoked}]_vars

\* C8: a PublishPassport call whose upload failed returns an error, issues no
\* durable update and no cache invalidation, and the row has no hash, locator
\* or publish time and is not Published.
C8_UploadFailureCommitsNothing ==
    \A p \in Procs :
        LET r == proc[p]
        IN  (PublishDone(r) /\ "UploadJSON:err" \in r.io)
            => /\ r.res.rec = {} /\ r.res.err # {}
               /\ r.io \cap {"Update:ok", "Update:err", "CacheDelete:go"} = {}
               /\ pubUpdates[r.id] = 0
               /\ db[r.id].status # StatusPublished
               /\ \A g \in r.got : db[r.id].status \in {g.status, StatusRevoked}
               /\ db[r.id].hash = EmptyHash
               /\ db[r.id].loc = ""
               /\ db[r.id].publishedAt = {}
               /\ \A t \in BagToSet(tasks) : t.op # "del"

\* the upload of a Draft passport failed and the row is still Draft
C8_Witness ==
    \E p \in Procs :
        /\ PublishDone(proc[p])
        /\ "UploadJSON:err" \in proc[p].io
        /\ proc[p].res.err = {UploadFailed}
        /\ db[proc[p].id].status = StatusDraft

\* C9: a PublishPassport call whose durable update failed returns an error of
\* a class other than that of an upload failure, of AlreadyPublished and of a
\* missing passport; the row is not Published and no invalidation is issued.
C9_UpdateFailureDistinct ==
    \A p \in Procs :
        LET r == proc[p]
        IN  (PublishDone(r) /\ "Update:err" \in r.io)
            => /\ r.res.rec = {}
               /\ \E e \in r.res.err :
                    ErrClass(e) \notin
                      {ErrClass(UploadFailed), ErrClass(AlreadyPublished),
                       ErrClass(FetchFailed("passport not found"))}
               /\ r.io \cap {"Update:ok", "CacheDelete:go"} = {}
               /\ db[r.id].status # StatusPublished

\* every full record the fast tier holds or is about to receive
CacheWrites ==
    {cache[id].val : id \in DOMAIN cache}
      \cup {t.val : t \in {u \in BagToSet(tasks) : u.op = "set"}}

\* C10: every value GetPassport hands to the fast tier is the serialization
\* of the passport as fetched from the durable tier, whoever the viewer is,
\* and no step of GetPassport changes the durable tier, the idempotency store
\* or (itself) the fast tier.
C10_CacheHoldsUnredacted ==
    /\ [](\A v \in CacheWrites : \A x \in Deserialize(v) :
            KeySet(x.attrs) = KeySet(db[x.id].attrs))
    /\ [][\A p \in Procs :
            (proc[p].op = "get" /\ proc'[p] # proc[p])
            => /\ db' = db /\ idem' = idem /\ cache' = cache
               /\ tasks' # tasks
                  => tasks' = tasks (+) SetToBag(
                        {[op |-> "set", id |-> proc[p].id,
                          val |-> Serialize(RowRead(db[proc[p].id]))]})]_vars

\* an anonymous read went to the durable tier, was answered redacted, and the
\* fast tier now holds the record with its restricted field
C10_Witness ==
    \E p \in Procs :
        LET r == proc[p]
        IN  /\ GetDone(r)
            /\ r.path = "db"
            /\ r.vc # ViewContextRestricted
            /\ \E x \in r.res.rec : "disassemblyInstructions" \notin KeySet(x.attrs)
            /\ r.id \in DOMAIN cache
            /\ \E x \in Deserialize(cache[r.id].val) :
                 "disassemblyInstructions" \in KeySet(x.attrs)

\* the passport a read by r of the snapshot g answers with
Redacted(r, g) == IF NonOwner(r, g) THEN filterAttributes(g) ELSE g

\* C11: a GetPassport call that reads a decodable fast-tier entry ends there:
\* no durable GetByID, no fast-tier Set, and the result is the cached
\* snapshot after redaction.
C11_HitUsedDirectly ==
    [][\A p \in Procs :
         (/\ proc[p].pc = "g_cache"
          /\ proc'[p] # proc[p]
          /\ Live(cache, proc[p].id)
          /\ faults' = faults)
         => /\ proc'[p].pc = "done"
            /\ proc'[p].io = {"CacheGet:hit"}
            /\ tasks' = tasks
            /\ proc'[p].res = [rec |-> {Redacted(proc[p], cache[proc[p].id].val.rec)},
                               err |-> {}]]_vars

\* a read was answered from the fast tier alone
C11_Witness ==
    \E p \in Procs :
        /\ GetDone(proc[p])
        /\ proc[p].io = {"CacheGet:hit"}
        /\ proc[p].path = "cache"
        /\ proc[p].res.rec # {}

\* C12: after a fast-tier miss, error or undecodable entry GetPassport goes
\* to the durable tier; when the durable tier has no row for the id the call
\* returns the repository's error and no passport, and starts no refill.
C12_MissFallsBack ==
    [][\A p \in Procs :
         LET r == proc[p]
             n == proc'[p]
         IN  /\ (/\ r.pc = "g_cache" /\ n # r
                 /\ (~Live(cache, r.id) \/ faults' # faults))
                => (n.pc = "g_db" /\ n.res = NoResult)
             /\ (r.pc = "g_db" /\ n # r)
                => n.io \cap {"GetByID:ok", "GetByID:notfound", "GetByID:err"} # {}
             /\ (/\ r.pc = "g_db" /\ n # r
                 /\ r.id \notin DOMAIN db /\ faults' = faults)
                => /\ n.pc = "done"
                   /\ n.res = [rec |-> {}, err |-> {RepoNotFound}]
                   /\ "CacheSet:go" \notin n.io
                   /\ tasks' = tasks]_vars

\* a read of an unknown id missed the fast tier and was refused by the
\* durable tier
C12_Witness ==
    \E p \in Procs :
        /\ GetDone(proc[p])
        /\ proc[p].io = {"CacheGet:miss", "GetByID:notfound"}
        /\ proc[p].res.rec = {}
        /\ tasks = EmptyBag

\* the fast-tier Get of the call r did not give a usable entry
CacheFailed(r) ==
    r.io \cap {"CacheGet:miss", "CacheGet:err", "CacheGet:corrupt"} # {}

\* C13: whatever the fast tier does, GetPassport answers as a durable read
\* followed by redaction would, and the fate of a detached Set or Delete
\* changes no call's result.
C13_CacheFailuresAbsorbed ==
    /\ [](\A p \in Procs :
            (GetDone(proc[p]) /\ CacheFailed(proc[p]))
            => /\ proc[p].io \cap {"GetByID:ok", "GetByID:notfound", "GetByID:err"} # {}
               /\ "GetByID:ok" \in proc[p].io
                  => /\ proc[p].path = "db"
                     /\ proc[p].res.err = {}
                     /\ proc[p].res.rec = {Redacted(proc[p], g) : g \in proc[p].got}
               /\ "GetByID:ok" \notin proc[p].io
                  => /\ proc[p].res.rec = {}
                     /\ \A e \in proc[p].res.err : e.msg # "cache error")
    /\ [][/\ \A p \in Procs :
              (/\ proc[p].pc = "g_db" /\ proc'[p] # proc[p]
               /\ proc[p].id \in DOMAIN db /\ faults' = faults)
              => proc'[p].res =
                   [rec |-> {Redacted(proc[p], RowRead(db[proc[p].id]))}, err |-> {}]
          /\ BagCardinality(tasks') < BagCardinality(tasks) => proc' = proc]_vars

\* a read whose fast-tier Get failed was answered from the durable tier
C13_Witness ==
    \E p \in Procs :
        /\ GetDone(proc[p])
        /\ proc[p].io = {"CacheGet:err", "GetByID:ok", "CacheSet:go"}
        /\ proc[p].res.err = {}
        /\ proc[p].res.rec # {}

\* C14: once a publish of a passport has returned (the row is Published, its
\* update made at updatedAt), a read whose first call is made later than one
\* cache lifetime after that does not answer with a Draft snapshot.
C14_NoStaleReadAfterLifetime ==
    [][\A p \in Procs :
         LET r == proc[p]
         IN  (/\ r.pc = "g_cache" /\ r.io = {}
              /\ proc'[p].pc = "done"
              /\ r.id \in DOMAIN db
              /\ db[r.id].status = StatusPublished
              /\ now > db[r.id].updatedAt + CacheTTLHours)
             => \A x \in proc'[p].res.rec : x.status # StatusDraft]_vars

\* C15: a started refill or invalidation belongs to no request: no step of
\* a call (its return included) removes it, the call that starts it returns
\* in the same step, its fast-tier call takes effect whatever the state of
\* the requests, and it is eventually executed; a durable fetch or update
\* that fails starts none.
C15_DetachedTasksRun ==
    /\ [][/\ proc' # proc => tasks \sqsubseteq tasks'
          /\ tasks' # tasks /\ tasks \sqsubseteq tasks'
             => \E p \in Procs :
                  /\ proc[p].pc \in {"g_db", "p_update"}
                  /\ proc'[p].pc = "done" /\ proc'[p].res.err = {}
          /\ \A t \in DOMAIN tasks :
               (tasks' = tasks (-) SetToBag({t}) /\ faults' = faults)
               => cache' = Applied(t)
          /\ \A p \in Procs :
               (/\ proc[p].pc \in {"g_db", "p_update"}
                /\ proc'[p] # proc[p] /\ faults' # faults)
               => tasks' = tasks]_vars
    /\ \A op \in {"set", "del"} : Pending(op) ~> ~Pending(op)

\* the request has returned and its slot is free while the goroutine it
\* started is still pending
C15_Witness ==
    /\ \A p \in Procs : proc[p].pc = "idle"
    /\ Pending("set")
    /\ Pending("del")

\* the rows saved before the row of the call r for the same owner, category
\* and payload
Earlier(r) ==
    {id \in DOMAIN db : /\ id < r.id
                        /\ db[id].owner = r.owner
                        /\ db[id].category = r.category
                        /\ db[id].attrs = Jsonb(r.payload)}

\* the call r saved a row of its own
Created(r) == CreateDone(r) /\ "Save:ok" \in r.io

\* C16 as stated: a call that looks up after the registration returns the
\* registered passport, and a call creates a second row for a fingerprint
\* only if its lookup fell between the first row's Save and its registration.
C16_DuplicateOnlyInWindow ==
    \A p \in Procs :
        LET r == proc[p]
        IN  /\ (CreateDone(r) /\ Registered(r)) => ~Created(r)
            /\ (Created(r) /\ Earlier(r) # {})
               => (Earlier(r) \cap r.seen # {} /\ ~Registered(r))

\* C16, amended: a call that looks up after the registration, and whose
\* lookup and fetch succeed, returns the registered passport; a call creates
\* a second row for a fingerprint only if its lookup found no live
\* registration or its lookup or fetch failed.
C16_DuplicateOnlyWithoutHit ==
    \A p \in Procs :
        LET r == proc[p]
            failed == r.io \cap {"GetIdempotency:err", "GetIdempotency:corrupt",
                                 "GetByID:err", "GetByID:notfound"} # {}
        IN  /\ (CreateDone(r) /\ Registered(r) /\ ~failed)
               => /\ ~Created(r)
                  /\ r.res.err = {}
                  /\ \E x \in r.res.rec : ToString(x.id) \in r.reg
            /\ (Created(r) /\ Earlier(r) # {}) => (~Registered(r) \/ failed)

\* two identical calls in flight both looked up before either saved, and
\* each created a row
C16_Witness ==
    \E p, q \in Procs :
        /\ p # q
        /\ Created(proc[p]) /\ Created(proc[q])
        /\ proc[q].id \in Earlier(proc[p])
        /\ proc[p].seen = {} /\ proc[q].seen = {}
        /\ proc[p].io \cap {"GetIdempotency:err", "GetByID:err"} = {}
        /\ "SetIdempotency:ok" \in proc[q].io

\* the call r found a live entry that it could not use
Stale(r) == r.io \cap {"GetIdempotency:corrupt", "GetByID:err", "GetByID:notfound"} # {}

\* C17: a CreatePassport call whose lookup hits an entry that does not parse,
\* or that names a passport the durable tier cannot load, goes on as on a
\* miss: it validates, saves a new row and registers the new identity in
\* place of the entry, and it fails only if validation or Save fails.
C17_StaleEntryIsAMiss ==
    /\ [](\A p \in Procs :
            LET r == proc[p]
                e == ValidatePayload(r.category, r.payload)
            IN  /\ (r.op = "create" /\ Stale(r)) => r.pc \in {"c_save", "c_idem", "c_event", "done"}
                /\ (CreateDone(r) /\ Stale(r))
                   => /\ r.io \cap {"GetByID:ok"} = {}
                      /\ e # {} => (r.res = [rec |-> {}, err |-> e] /\ ~Created(r))
                      /\ (e = {} /\ "Save:err" \notin r.io)
                         => /\ Created(r)
                            /\ r.res.err = {}
                            /\ r.id \in DOMAIN db \ r.seen
                            /\ ToString(r.id) \notin r.reg
                            /\ \E x \in r.res.rec : x.id = r.id
                            /\ r.io \cap {"SetIdempotency:ok", "SetIdempotency:err"} # {})
    /\ [][\A p \in Procs :
            LET r  == proc[p]
                fp == PayloadHash(r.owner, r.category, r.payload)
            IN  (/\ r.pc = "c_idem" /\ Stale(r)
                 /\ proc'[p].pc = "c_event"
                 /\ "SetIdempotency:ok" \in proc'[p].io)
                => /\ fp \in DOMAIN idem'
                   /\ idem'[fp] = [val |-> ToString(r.id), exp |-> now + IdemTTLHours]]_vars

\* a call found a live entry, failed to load the passport it names, created a
\* new one and registered it in place of the entry
C17_Witness ==
    \E p \in Procs :
        LET r  == proc[p]
            fp == PayloadHash(r.owner, r.category, r.payload)
        IN  /\ CreateDone(r) /\ Created(r)
            /\ "GetByID:err" \in r.io
            /\ Registered(r)
            /\ "SetIdempotency:ok" \in r.io
            /\ fp \in DOMAIN idem /\ idem[fp].val = ToString(r.id)
            /\ idem[fp].val \notin r.reg

\* C18: when SetIdempotency fails after Save succeeded, CreatePassport still
\* returns the created passport and no error, the row stays in the durable
\* tier, and the creation event is still published.
C18_RegistrationFailureNotFatal ==
    /\ [](\A p \in Procs :
            LET r == proc[p]
            IN  /\ (r.op = "create" /\ "SetIdempotency:err" \in r.io)
                   => /\ "Save:ok" \in r.io
                      /\ r.pc \in {"c_event", "done"}
                      /\ r.id \in DOMAIN db
                      /\ db[r.id] = RowSaved(CHOOSE x \in r.passport : TRUE)
                /\ (CreateDone(r) /\ "SetIdempotency:err" \in r.io)
                   => /\ r.res = [rec |-> r.passport, err |-> {}]
                      /\ \E x \in r.res.rec : x.id = r.id
                      /\ r.io \cap {"Publish:ok", "Publish:err"} # {}
                      /\ "Publish:ok" \in r.io
                         => [tenant_id |-> r.owner, passport_id |-> ToString(r.id)]
                              \in events)
    /\ [][\A p \in Procs :
            (proc[p].pc = "c_idem" /\ proc'[p] # proc[p])
            => /\ proc'[p].pc = "c_event"
               /\ db' = db
               /\ events' = events
               /\ faults' # faults => idem' = idem]_vars

\* a call whose registration failed has answered with its passport, and its
\* event has gone out
C18_Witness ==
    \E p \in Procs :
        LET r == proc[p]
        IN  /\ CreateDone(r)
            /\ "SetIdempotency:err" \in r.io
            /\ "Publish:ok" \in r.io
            /\ r.res.err = {}
            /\ r.id \in DOMAIN db
            /\ [tenant_id |-> r.owner, passport_id |-> ToString(r.id)] \in events

\* the registration of r's fingerprint had run out when r looked it up
Lapsed(r) == r.lapsed # {}

\* C19: every idempotency entry is written with a lifetime of IdemTTLHours;
\* a CreatePassport call made for the same owner, category and payload after
\* the entry has run out is treated as new: it fetches nothing, saves a new
\* row with another identity and registers that identity.
C19_ExpiredEntryIsNew ==
    /\ [](\A p \in Procs :
            LET r == proc[p]
            IN  /\ (r.op = "create" /\ Lapsed(r))
                   => /\ r.io \cap {"GetIdempotency:ok", "GetIdempotency:corrupt",
                                    "GetByID:ok", "GetByID:err", "GetByID:notfound"} = {}
                      /\ r.pc \in {"c_save", "c_idem", "c_event", "done"}
                /\ (CreateDone(r) /\ Lapsed(r) /\ "Save:err" \notin r.io)
                   => /\ Created(r)
                      /\ r.res.err = {}
                      /\ r.id \in DOMAIN db \ r.seen
                      /\ ToString(r.id) \notin r.lapsed
                      /\ \E x \in r.res.rec : x.id = r.id
                      /\ r.io \cap {"SetIdempotency:ok", "SetIdempotency:err"} # {})
    /\ [][/\ \A fp \in DOMAIN idem' :
               (fp \notin DOMAIN idem \/ idem'[fp] # idem[fp])
               => idem'[fp].exp = now + IdemTTLHours
          /\ \A p \in Procs :
               LET r  == proc[p]
                   fp == PayloadHash(r.owner, r.category, r.payload)
               IN  (/\ r.pc = "c_idem" /\ Lapsed(r)
                    /\ "SetIdempotency:ok" \in proc'[p].io)
                   => idem'[fp] = [val |-> ToString(r.id), exp |-> now + IdemTTLHours]]_vars

\* a call made after the first registration ran out has created a second row
\* for the same submission and registered it
C19_Witness ==
    \E p \in Procs :
        LET r  == proc[p]
            fp == PayloadHash(r.owner, r.category, r.payload)
        IN  /\ CreateDone(r) /\ Created(r)
            /\ Lapsed(r)
            /\ now >= IdemTTLHours
            /\ Earlier(r) # {}
            /\ \A id \in Earlier(r) : ToString(id) \in r.lapsed
            /\ "GetIdempotency:miss" \in r.io
            /\ idem[fp] = [val |-> ToString(r.id), exp |-> now + IdemTTLHours]

\* the event CreatePassport publishes for the passport of the call r
CreatedEvent(r) == [tenant_id |-> r.owner, passport_id |-> ToString(r.id)]

\* the publications the call r attempted
Publications(r) == r.io \cap {"Publish:ok", "Publish:err"}

\* C20: CreatePassport publishes one creation event, carrying the owner and
\* the new identity, for each passport it saves, and only after the Save; a
\* call that replays, fails validation or fails to save publishes none; and
\* the call returns the passport whether or not the publication succeeds.
C20_OneEventPerCreation ==
    /\ [](/\ \A p \in Procs :
               LET r == proc[p]
               IN  /\ r.op = "create" => Cardinality(Publications(r)) <= 1
                   /\ (r.op = "create" /\ Publications(r) # {})
                      => ("Save:ok" \in r.io /\ r.id \in DOMAIN db)
                   /\ CreateDone(r)
                      => /\ Created(r) <=> Publications(r) # {}
                         /\ Created(r) => r.res = [rec |-> r.passport, err |-> {}]
                         /\ "Publish:ok" \in r.io => CreatedEvent(r) \in events
          /\ \A e \in events :
               \E id \in DOMAIN db :
                 e = [tenant_id |-> db[id].owner, passport_id |-> ToString(id)])
    /\ [][events' # events
          => \E p \in Procs :
               LET r == proc[p]
               IN  /\ r.pc = "c_event" /\ "Save:ok" \in r.io
                   /\ \A e \in events : e.passport_id # ToString(r.id)
                   /\ events' = events \cup {CreatedEvent(r)}
                   /\ proc'[p].pc = "done"
                   /\ proc'[p].res = [rec |-> r.passport, err |-> {}]]_vars

\* one call has created a passport and published its event; another has
\* created a passport, failed to publish, and returned it all the same
C20_Witness ==
    \E p, q \in Procs :
        /\ Created(proc[p]) /\ "Publish:ok" \in proc[p].io
        /\ CreatedEvent(proc[p]) \in events
        /\ Created(proc[q]) /\ "Publish:err" \in proc[q].io
        /\ proc[q].res.err = {}
        /\ \E x \in proc[q].res.rec : x.id = proc[q].id
        /\ CreatedEvent(proc[q]) \notin events
        /\ Cardinality(events) = 1

\* the view of the call r is the one the resolver derives from token
Carries(r, token) == <<r.vc, r.viewer>> = ResolveContext(token)

C22_RestrictedSetFixed ==
    /\ [](/\ DOMAIN restrictedFields = DOMAIN Schemas
          /\ \A c \in DOMAIN Schemas :
               /\ restrictedFields[c] \subseteq DOMAIN Schemas[c].access
               /\ \A k \in DOMAIN Schemas[c].access :
                    /\ Schemas[c].access[k] = "restricted" => k \in restrictedFields[c]
                    /\ Schemas[c].access[k] \in {"public", ""} => k \notin restrictedFields[c])
    /\ [][restrictedFields' = restrictedFields]_vars

\* after a create, a publish and a redacted read of a battery passport, the
\* read kept the public and the untagged field and dropped the restricted one
C22_Witness ==
    \E p \in Procs :
        LET r == proc[p]
        IN  /\ GetDone(r)
            /\ r.id \in DOMAIN db
            /\ db[r.id].status = StatusPublished
            /\ db[r.id].category = CategoryBattery
            /\ KeySet(db[r.id].attrs) = {"batteryModel", "chemistry", "disassemblyInstructions"}
            /\ \E x \in r.res.rec : KeySet(x.attrs) = {"batteryModel", "chemistry"}

\* C23: a saved row carries the category and owner of the request that
\* created it, no step changes either, and no step removes a row.
C23_CategoryOwnerKept ==
    /\ [](\A p \in Procs :
            LET r == proc[p]
            IN  (r.op = "create" /\ "Save:ok" \in r.io)
                => /\ r.id \in DOMAIN db
                   /\ db[r.id].category = r.category
                   /\ db[r.id].owner = r.owner)
    /\ [][\A id \in DOMAIN db :
            /\ id \in DOMAIN db'
            /\ db'[id].id = db[id].id
            /\ db'[id].category = db[id].category
            /\ db'[id].owner = db[id].owner]_vars

\* a battery passport of m1 has been created, read and published, and its
\* row still says battery and m1
C23_Witness ==
    \E p \in Procs :
        LET r == proc[p]
        IN  /\ GetDone(r)
            /\ r.id \in DOMAIN db
            /\ pubUpdates[r.id] = 1
            /\ db[r.id].status = StatusPublished
            /\ db[r.id].category = CategoryBattery
            /\ db[r.id].owner = "m1"

\* C24: the attributes of a Published row never change, whatever calls run
\* or overlap afterwards, and they are the document whose bytes were hashed
\* and uploaded when the row was published.
C24_PublishedAttributesFrozen ==
    /\ [](\A id \in DOMAIN db :
            db[id].status = StatusPublished
            => /\ db[id].hash = Sha256Hex(MarshalRaw(db[id].attrs))
               /\ id \in DOMAIN blob
               /\ blob[id].data = MarshalRaw(db[id].attrs))
    /\ [][\A id \in DOMAIN db :
            db[id].status = StatusPublished
            => /\ db'[id].attrs = db[id].attrs
               /\ db'[id].hash = db[id].hash]_vars

\* two overlapping publish calls have both updated the row, and it holds the
\* attributes it was created with
C24_Witness ==
    \E id \in DOMAIN db :
        /\ pubUpdates[id] = 2
        /\ db[id].status = StatusPublished
        /\ db[id].attrs = Jsonb(PayloadFull)
        /\ db[id].hash = Sha256Hex(MarshalRaw(Jsonb(PayloadFull)))
        /\ \A p \in Procs : PublishDone(proc[p]) /\ "Update:ok" \in proc[p].io

\* the call r ended on a failure of the durable tier or of the blob tier
StorageFailed(r) == r.io \cap {"GetByID:err", "UploadJSON:err", "Update:err"} # {}

\* the call r asked for a passport the durable tier does not hold
Missing(r) == "GetByID:notfound" \in r.io

\* C25: on the publish path and on the read path, a passport that does not
\* exist is answered with a 4xx, and a failure of the durable tier or of the
\* blob tier with a 5xx whose body is a generic message.
C25_TaxonomyMapped ==
    \A p \in Procs :
        LET r == proc[p]
        IN  /\ (PublishDone(r) /\ Missing(r))
               => \A e \in r.res.err : PublishStatusCode(e) \in 400..499
            /\ (PublishDone(r) /\ StorageFailed(r))
               => \A e \in r.res.err : /\ PublishStatusCode(e) \in 500..599
                                       /\ PublishBody(e) = GenericBody
            /\ (GetDone(r) /\ Missing(r))
               => \A e \in r.res.err : ResolveStatusCode(e) \in 400..499
            /\ (GetDone(r) /\ StorageFailed(r))
               => \A e \in r.res.err : /\ ResolveStatusCode(e) \in 500..599
                                       /\ ResolveBody(e) = GenericBody

\* the handler answered the request r without calling the service
Refused(r) == r.path = "handler"

KeyLookups(r)   == r.io \cap {"ValidateKey:ok", "ValidateKey:invalid", "ValidateKey:err"}
StateLookups(r) ==
    r.io \cap ({"GetTenantState:err"} \cup {"GetTenantState:" \o s : s \in TenantStates})

CacheReads(r) ==
    r.io \cap {"CacheGet:hit", "CacheGet:miss", "CacheGet:err", "CacheGet:corrupt"}

\* C28: PublishPassport takes the passport from the durable tier and never
\* from the fast tier: what it hashes and uploads are the attributes of the
\* row as it was fetched, whatever snapshot the fast tier holds for the id.
C28_PublishReadsDurable ==
    /\ [](\A p \in Procs : proc[p].op = "publish" => CacheReads(proc[p]) = {})
    /\ [][\A p \in Procs :
            LET r == proc[p]
            IN  /\ (r.pc = "p_fetch" /\ "GetByID:ok" \in proc'[p].io)
                   => /\ proc'[p].got = {RowRead(db[r.id])}
                      /\ cache' = cache
                /\ (r.pc = "p_upload" /\ "UploadJSON:ok" \in proc'[p].io)
                   => \A g \in r.got, x \in proc'[p].passport :
                        /\ blob'[r.id].data = MarshalRaw(g.attrs)
                        /\ x.hash = Sha256Hex(MarshalRaw(g.attrs))
                        /\ KeySet(g.attrs) = KeySet(db[r.id].attrs)]_vars

\* a publish call has committed the row it fetched as REVOKED while the fast
\* tier still held the DRAFT snapshot of the same passport
C28_Witness ==
    \E p \in Procs :
        LET r == proc[p]
        IN  /\ PublishDone(r)
            /\ "Update:ok" \in r.io
            /\ Live(cache, r.id)
            /\ \E c \in Deserialize(cache[r.id].val), g \in r.got :
                 /\ c.status = StatusDraft
                 /\ g.status = StatusRevoked
                 /\ c # g
\* C29: redaction removes exactly the restricted top-level keys of the
\* category and keeps every other top-level key with its value unchanged, a
\* nested key named like a restricted field included; a passport of a category
\* without restricted fields is returned unchanged.
C29_RedactionShallowLossless ==
    \A p \in Procs :
        LET r == proc[p]
        IN  (r.op = "filter" /\ r.pc = "done")
            => \A g \in r.got : \A x \in r.res.rec :
                 LET restricted == IF g.category \in DOMAIN RestrictedFields
                                     THEN RestrictedFields[g.category] ELSE {}
                 IN  /\ KeySet(x.attrs) = KeySet(g.attrs) \ restricted
                     /\ \A k \in KeySet(x.attrs) : x.attrs.vals[k] = g.attrs.vals[k]
                     /\ restricted = {} => x = g
\* C30: in every state of the durable tier a Draft row has an empty
\* immutability hash, an empty storage location and no publish timestamp, and
\* a Published row has all three set; and every row CreatePassport inserts is a
\* Draft whose owner, category and attributes (as a JSON value) are those of
\* the request and whose createdAt equals its updatedAt.
C30_DurableTierShape ==
    /\ [](\A id \in DOMAIN db :
            /\ db[id].status = StatusDraft
                 => /\ db[id].hash = EmptyHash
                    /\ db[id].loc = ""
                    /\ db[id].publishedAt = {}
            /\ db[id].status = StatusPublished
                 => /\ db[id].hash # EmptyHash
                    /\ db[id].loc # ""
                    /\ db[id].publishedAt # {})
    /\ [][\A id \in DOMAIN db' \ DOMAIN db :
            \E p \in Procs :
                LET r == proc[p]
                IN  /\ r.op = "create" /\ r.pc = "c_save"
                    /\ proc'[p].id = id
                    /\ db'[id].status = StatusDraft
                    /\ db'[id].owner = r.owner
                    /\ db'[id].category = r.category
                    /\ KeySet(db'[id].attrs) = KeySet(r.payload)
                    /\ db'[id].attrs.vals = r.payload.vals
                    /\ db'[id].createdAt = db'[id].updatedAt]_vars

\* a passport created as a Draft has been published, after time has passed
C30_Witness ==
    \E p \in Procs : \E x \in proc[p].res.rec :
        /\ proc[p].op = "publish" /\ proc[p].pc = "done"
        /\ x.id \in DOMAIN db
        /\ db[x.id].status = StatusPublished
        /\ db[x.id].hash # EmptyHash
        /\ db[x.id].loc = x.loc /\ x.loc # ""
        /\ db[x.id].publishedAt # {}
        /\ db[x.id].createdAt < db[x.id].updatedAt
        /\ db[x.id].owner = "m1" /\ db[x.id].category = CategoryBattery
\* C31: the blob location of a passport (bucket "passports", key
\* "passports/<id>.json") receives at most one successful write, whatever
\* sequence or interleaving of PublishPassport calls runs.
C31_BlobWrittenOnce ==
    \A id \in DOMAIN blob : blob[id].puts <= 1
\* C32: an idempotency hit returns a passport only to a request with that
\* passport's owner and category: requests with different (owner, category,
\* payload) triples never share a fingerprint, also when the owner and
\* category bytes of the two concatenate to the same bytes.
C32_HitOnlyForOwnTriple ==
    \A p \in Procs :
        LET r == proc[p]
        IN  (r.op = "create" /\ r.pc = "done" /\ r.lookup # {} /\ r.res.err = {}
             /\ "Save:ok" \notin r.io)
            => \A x \in r.res.rec : x.owner = r.owner /\ x.category = r.category
\* C33: a publish request for a passport made by an authenticated tenant
\* other than its owner leaves the durable row, the blob store and the fast
\* tier (the invalidation it would start included) unchanged.
C33_PublishOnlyByOwner ==
    [][\A p \in Procs :
         LET r == proc[p]
         IN  (r.op = "publish" /\ r.id \in DOMAIN db /\ r.viewer # db[r.id].owner
              /\ proc'[p] # r)
             => db' = db /\ blob' = blob /\ cache' = cache /\ tasks' = tasks]_vars
\* C34: every idempotency entry maps its fingerprint to the identity of a row
\* of the durable tier whose owner, category and attributes (as a JSON value)
\* are the triple the fingerprint was computed from; and an entry is written
\* only by a call whose Save succeeded: a failed Save or a failed validation
\* registers nothing.
C34_EntriesNameTheirRecord ==
    /\ [](\A fp \in DOMAIN idem :
            \E id \in ParseUUID(idem[fp].val) : \E s \in Submissions :
                /\ fp = PayloadHash(s[1], s[2], s[3])
                /\ id \in DOMAIN db
                /\ db[id].owner = s[1]
                /\ db[id].category = s[2]
                /\ KeySet(db[id].attrs) = KeySet(s[3])
                /\ db[id].attrs.vals = s[3].vals)
    /\ [][idem' # idem
            => \E p \in Procs :
                 LET r == proc[p]
                 IN  /\ r.op = "create" /\ r.pc = "c_idem"
                     /\ "Save:ok" \in r.io
                     /\ r.id \in DOMAIN db
                     /\ ValidatePayload(r.category, r.payload) = {}
                     /\ idem' = (PayloadHash(r.owner, r.category, r.payload)
                                   :> [val |-> ToString(r.id), exp |-> now + IdemTTLHours])
                                 @@ idem]_vars

\* one submission is registered under its record while another call's Save
\* has failed and left no entry
C34_Witness ==
    \E p, q \in Procs :
        /\ proc[p].op = "create" /\ proc[p].pc = "done" /\ "Save:err" \in proc[p].io
        /\ PayloadHash(proc[p].owner, proc[p].category, proc[p].payload) \notin DOMAIN idem
        /\ proc[q].op = "create" /\ "SetIdempotency:ok" \in proc[q].io
        /\ PayloadHash(proc[q].owner, proc[q].category, proc[q].payload) \in DOMAIN idem
        /\ proc[q].id \in DOMAIN db
\* C35: every entry the service writes into the fast tier under the key of a
\* passport is the serialization of a state the durable row of that passport
\* held earlier: a refill is started only with the serialization of the row as
\* the durable tier holds it at the fetch, and the fast tier gains or changes
\* an entry only by running a refill that was started for that key.
C35_CacheHoldsCommittedStates ==
    /\ [][\A t \in DOMAIN tasks' :
            (t.op = "set" /\ CopiesIn(t, tasks') > CopiesIn(t, tasks))
            => /\ t.id \in DOMAIN db
               /\ t.val = Serialize(db[t.id])]_vars
    /\ [][\A id \in DOMAIN cache' :
            (id \notin DOMAIN cache \/ cache'[id] # cache[id])
            => \E t \in DOMAIN tasks :
                 t.op = "set" /\ t.id = id /\ cache'[id].val = t.val]_vars
\* C36: once the invalidation started by a successful publish of a passport
\* has executed (the row is Published, no Delete for it is pending and no call
\* has failed so far), the fast tier never again holds a Draft snapshot of it,
\* whatever reads and refills are in flight.
C36_NoDraftAfterInvalidation ==
    [][\A id \in UUIDs :
         LET NoDraft(c) == \A k \in DOMAIN c :
                             \A x \in Deserialize(c[k].val) :
                                 x.id = id => x.status # StatusDraft
         IN  (/\ id \in DOMAIN db
              /\ db[id].status = StatusPublished
              /\ faults = 0
              /\ \A t \in DOMAIN tasks : ~(t.op = "del" /\ t.id = id)
              /\ NoDraft(cache))
             => NoDraft(cache')]_vars
\* C37: after a successful publish of a passport, a read by its owner that
\* misses the fast tier returns the status, immutability hash, storage
\* location and publish timestamp the publish returned (the values its update
\* wrote into the row), and the refill it starts carries the same four values.
C37_PublishedRoundTrip ==
    [][\A p \in Procs :
         LET r == proc[p]
         IN  (/\ r.op = "get" /\ r.pc = "g_db"
              /\ proc'[p].pc = "done" /\ proc'[p].res.err = {}
              /\ r.id \in DOMAIN db
              /\ db[r.id].status = StatusPublished
              /\ r.vc = ViewContextRestricted /\ r.viewer = db[r.id].owner)
             => LET row == db[r.id]
                    Same(x) == /\ x.status = row.status
                               /\ x.hash = row.hash
                               /\ x.loc = row.loc
                               /\ x.publishedAt = row.publishedAt
                IN  /\ \A x \in proc'[p].res.rec : Same(x)
                    /\ \A t \in DOMAIN tasks' :
                         (t.op = "set" /\ CopiesIn(t, tasks') > CopiesIn(t, tasks))
                         => \A y \in Deserialize(t.val) : Same(y)]_vars
\* C38: a read whose context carries no viewer identity (anonymous, or the
\* restricted view context without a viewer) never returns a restricted field
\* of the passport's category, for every passport the service can store, one
\* created with an empty owner included.
C38_NoViewerNoRestrictedField ==
    \A p \in Procs :
        LET r == proc[p]
        IN  (r.op = "get" /\ r.pc = "done" /\ r.viewer = "")
            => \A x \in r.res.rec :
                 x.category \in DOMAIN RestrictedFields
                 => KeySet(x.attrs) \cap RestrictedFields[x.category] = {}

====
